---- MODULE Spec2Model ----
(***************************************************************************)
(* Model of examples/vfgn/train.py: the flag dispatch of main(), the       *)
(* construction and iteration of GraphDataset, the rollout loop of Test()  *)
(* and the training loop of Train().                                       *)
(*                                                                         *)
(* Tensors are nested sequences indexed from 1 in the axis order of the    *)
(* source: a position tensor of shape [N, T, D] is position[p][t][d].      *)
(* Quantities that are floating point in the source and are only added,    *)
(* multiplied and divided are exact rationals <<numerator, denominator>>;  *)
(* a denominator of 0 is the NaN that 0/0 gives in torch.                  *)
(*                                                                         *)
(* The learned simulator, the tf.data pipeline and the helpers of          *)
(* modulus.utils.vfgn are outside the repository: their results are        *)
(* inputs, drawn from small sets, or the function their call site names.   *)
(***************************************************************************)
EXTENDS Integers, Sequences, FiniteSets, TLC

\* ------------------------------------------------------------ bounds
MaxParticles == 2
MaxRolloutSteps == 6
MaxTrajectories == 2
MaxBatchSize == 2
MaxNumSteps == 2
MaxBatches == 3

\* list() of a repeated dataset never ends; the model follows it this far.
MaxListed == MaxNumSteps + 2

\* ------------------------------------------------------------ program constants
INPUT_SEQUENCE_LENGTH == 5
PREDICT_LENGTH == 1
LOSS_DECAY_FACTOR == <<3, 5>>
NUM_PARTICLE_TYPES == 3
KINEMATIC_PARTICLE_ID == 0
METAL_PARTICLE_ID == 2
ANCHOR_PLANE_PARTICLE_ID == 1
Dim == 3
l_plane == 30
l_me == 3
eval_steps == 1

ModeValues == {"train", "eval", "eval_rollout"}
LossValues == {"standard", "weighted", "anchor", "me", "correlation",
               "anchor_me", "weighted_anchor"}

\* ------------------------------------------------------------ strings
Chars ==
    "standard" :> <<"s", "t", "a", "n", "d", "a", "r", "d">>
    @@ "weighted" :> <<"w", "e", "i", "g", "h", "t", "e", "d">>
    @@ "anchor" :> <<"a", "n", "c", "h", "o", "r">>
    @@ "me" :> <<"m", "e">>
    @@ "correlation" :> <<"c", "o", "r", "r", "e", "l", "a", "t", "i", "o", "n">>
    @@ "anchor_me" :> <<"a", "n", "c", "h", "o", "r", "_", "m", "e">>
    @@ "weighted_anchor" :> <<"w", "e", "i", "g", "h", "t", "e", "d", "_", "a", "n", "c", "h", "o", "r">>
    @@ "one_step_train" :> <<"o", "n", "e", "_", "s", "t", "e", "p", "_", "t", "r", "a", "i", "n">>
    @@ "one_step" :> <<"o", "n", "e", "_", "s", "t", "e", "p">>
    @@ "rollout" :> <<"r", "o", "l", "l", "o", "u", "t">>
    @@ "one_step_valid" :> <<"o", "n", "e", "_", "s", "t", "e", "p", "_", "v", "a", "l", "i", "d">>
    @@ "eval" :> <<"e", "v", "a", "l">>
    @@ "train" :> <<"t", "r", "a", "i", "n">>
    @@ "eval_rollout" :> <<"e", "v", "a", "l", "_", "r", "o", "l", "l", "o", "u", "t">>

\* str.startswith
startswith(s, prefix) ==
    LET a == Chars[s]
        b == Chars[prefix]
    IN  /\ Len(b) <= Len(a)
        /\ SubSeq(a, 1, Len(b)) = b

\* ------------------------------------------------------------ tensors
Min(a, b) == IF a <= b THEN a ELSE b

\* s[:n]
Take(s, n) == SubSeq(s, 1, Min(n, Len(s)))

\* s[n:]
Drop(s, n) == SubSeq(s, n + 1, Len(s))

\* torch.repeat_interleave(t, repeats=r) of a 1-d tensor
repeat_interleave(t, r) ==
    [i \in 1..(Len(t) * r) |-> t[((i - 1) \div r) + 1]]

\* torch.reshape(t, [-1, d]) of a 1-d tensor
reshape(t, d) ==
    [i \in 1..(Len(t) \div d) |-> [j \in 1..d |-> t[(i - 1) * d + j]]]

\* torch.where(cond, a, b) on [N, D] tensors
torch_where(cond, a, b) ==
    [p \in 1..Len(cond) |->
        [d \in 1..Len(cond[p]) |-> IF cond[p][d] THEN a[p][d] ELSE b[p][d]]]

\* utils.get_kinematic_mask / get_metal_mask / get_anchor_z_mask
get_kinematic_mask(particle_types) ==
    [p \in 1..Len(particle_types) |-> particle_types[p] = KINEMATIC_PARTICLE_ID]

get_metal_mask(particle_types) ==
    [p \in 1..Len(particle_types) |-> particle_types[p] = METAL_PARTICLE_ID]

get_anchor_z_mask(particle_types) ==
    [p \in 1..Len(particle_types) |-> particle_types[p] = ANCHOR_PLANE_PARTICLE_ID]

\* ------------------------------------------------------------ state
VARIABLES
    FLAGS,                \* the parsed command line
    data,                 \* what the files under FLAGS.data_path hold
    pc,                   \* position in main / Train / Test
    err,                  \* the exception that ended the run, or "none"
    called,               \* the procedure main() called
    dataset,              \* Train's and Test's `dataset`
    testDataset,          \* Train's `testDataset`
    features,             \* the element the loop is working on
    loaded,               \* Test: the checkpoint has been loaded
    example_index,        \* Test: number of rollouts written
    step,                 \* Test: rollout step; Train: optimizer steps counted
    current_positions,    \* Test: the input window
    updated_predictions,  \* Test: list of next_position
    inference_log,        \* Test: the calls of model.inference in this rollout
    rollout_op,           \* Test: the dict written last
    model,                \* the weights of the LearnedSimulator
    train,                \* Train: the local variables assigned so far
    calls                 \* Train: how often Adam(), backward() and step() ran

flagVars == <<FLAGS, data>>
trainVars == <<train, calls>>
testVars == <<loaded, example_index, current_positions, updated_predictions,
              inference_log, rollout_op, model>>
vars == <<FLAGS, data, pc, err, called, dataset, testDataset, features, loaded,
          example_index, step, current_positions, updated_predictions,
          inference_log, rollout_op, model, train, calls>>

ParticleTypes == 0..(NUM_PARTICLE_TYPES - 1)

\* The particle_type vectors of the modelled datasets.
ParticleTypeVectors ==
    UNION {[1..n -> ParticleTypes] : n \in 1..MaxParticles}

NumParticles == Len(data.particle_type)

\* Frames of one trajectory: the window and data.num_steps targets.
NumFrames == INPUT_SEQUENCE_LENGTH + data.num_steps

\* Ground-truth coordinate d of particle p in frame t of trajectory k.
GroundPosition(k, p, t, d) == 1000 * k + 10 * t + 3 * p + d

\* The global context (for instance a temperature) of frame t.
GroundContext(t) == 7 * t

\* The weights a LearnedSimulator can hold: what it adds to the newest frame of
\* its input. 0 stands for the weights of a freshly constructed model.
Checkpoints == {100, 200}

NONE == [mode |-> "none", split |-> "none", size |-> -1, pos |-> 0, listed |-> 0]

\* Train lines 312-316: optimizer = None; device = 'cpu' (step is `step`).
TrainLocals == [optimizer |-> "None", device |-> "cpu"]

NoCalls == [Adam |-> 0, backward |-> 0, optimizer_step |-> 0]

\* ------------------------------------------------------------ get_input_fn
\* reading_utils.split_trajectory: windows of INPUT_SEQUENCE_LENGTH inputs and
\* PREDICT_LENGTH targets cut from one trajectory.
split_trajectory == NumFrames - INPUT_SEQUENCE_LENGTH - PREDICT_LENGTH + 1

\* -(-a // b)
CeilDiv(a, b) == (a + b - 1) \div b

\* prepare_inputs, traced by ds.map: the exception it raises, or "none".
prepare_inputs(has_context) ==
    IF has_context THEN "none" ELSE "KeyError"

\* input_fn without `assert batch_size == 1`.
input_fn_no_assert(batch_size, mode, split) ==
    IF startswith(mode, "one_step")
    THEN IF prepare_inputs(data.has_context) # "none"
         THEN [raises |-> prepare_inputs(data.has_context), count |-> 0, repeats |-> FALSE]
         ELSE LET n == data.records[split] * split_trajectory
              IN  IF mode = "one_step_train"
                  THEN [raises |-> "none", count |-> 0, repeats |-> n > 0]
                  ELSE [raises |-> "none", count |-> CeilDiv(n, batch_size),
                        repeats |-> FALSE]
    ELSE IF mode = "rollout"
    THEN [raises |-> "none", count |-> data.records[split], repeats |-> FALSE]
    ELSE [raises |-> "ValueError", count |-> 0, repeats |-> FALSE]

\* get_input_fn(...)(): the exception raised, or the dataset returned, as the
\* number of elements one pass yields and whether it repeats forever.
input_fn(batch_size, mode, split) ==
    IF startswith(mode, "one_step")
    THEN IF prepare_inputs(data.has_context) # "none"
         THEN [raises |-> prepare_inputs(data.has_context), count |-> 0, repeats |-> FALSE]
         ELSE LET n == data.records[split] * split_trajectory
              IN  IF mode = "one_step_train"
                  THEN [raises |-> "none", count |-> 0, repeats |-> n > 0]
                  ELSE [raises |-> "none", count |-> CeilDiv(n, batch_size),
                        repeats |-> FALSE]
    ELSE IF mode = "rollout"
    THEN IF batch_size = 1
         THEN [raises |-> "none", count |-> data.records[split], repeats |-> FALSE]
         ELSE [raises |-> "AssertionError", count |-> 0, repeats |-> FALSE]
    ELSE [raises |-> "ValueError", count |-> 0, repeats |-> FALSE]

\* ------------------------------------------------------------ Init
Init ==
    /\ \E mode \in ModeValues, batch_size \in 1..MaxBatchSize :
          IF mode = "train"
          THEN \E loss \in LossValues, n \in 1..MaxNumSteps :
                 FLAGS = [mode |-> mode, loss |-> loss, batch_size |-> batch_size,
                          num_steps |-> n, rollout_refine |-> FALSE,
                          fp16 |-> FALSE, eval_split |-> "test", device |-> "cuda:0"]
          ELSE \E rollout_refine \in BOOLEAN :
                 FLAGS = [mode |-> mode, loss |-> "standard", batch_size |-> batch_size,
                          num_steps |-> MaxNumSteps, rollout_refine |-> rollout_refine,
                          fp16 |-> FALSE, eval_split |-> "test", device |-> "cuda:0"]
    /\ \E particle_type \in ParticleTypeVectors, has_context \in BOOLEAN,
          a \in 0..1, b \in 0..MaxTrajectories :
          data = [particle_type |-> particle_type, has_context |-> has_context,
                  num_steps |-> MaxRolloutSteps,
                  records |-> [train |-> a, valid |-> 0, test |-> b]]
    /\ pc = "main"
    /\ err = "none"
    /\ called = "none"
    /\ dataset = NONE
    /\ testDataset = NONE
    /\ features = << >>
    /\ loaded = FALSE
    /\ example_index = 0
    /\ step = 0
    /\ current_positions = << >>
    /\ updated_predictions = << >>
    /\ inference_log = << >>
    /\ rollout_op = << >>
    /\ model = 0
    /\ train = TrainLocals
    /\ calls = NoCalls

\* ------------------------------------------------------------ main
Raise(e) ==
    /\ pc' = "raised"
    /\ err' = e

\* main(): Train() when the mode is "train", Test() otherwise.
Main ==
    /\ pc = "main"
    /\ IF FLAGS.mode = "train"
       THEN called' = "Train" /\ pc' = "Train"
       ELSE called' = "Test" /\ pc' = "Test"
    /\ UNCHANGED <<flagVars, err, dataset, testDataset, features, step, testVars, trainVars>>

\* ------------------------------------------------------------ GraphDataset
\* GraphDataset.__init__ up to the call of list(): the pipeline is built.
GraphDataset(mode, split) ==
    [mode |-> mode, split |-> split, size |-> -1, pos |-> 0, listed |-> 0]

\* One more element taken by list(self.dataset), or its end: size is set.
ListStep(ds) ==
    LET src == input_fn(FLAGS.batch_size, ds.mode, ds.split)
    IN  IF src.repeats \/ ds.listed < src.count
        THEN [ds EXCEPT !.listed = ds.listed + 1]
        ELSE [ds EXCEPT !.size = ds.listed]

ListEnabled(ds) ==
    LET src == input_fn(FLAGS.batch_size, ds.mode, ds.split)
    IN  src.repeats => ds.listed < MaxListed

\* Test(): dataset = GraphDataset(mode='rollout', split=FLAGS.eval_split)
TestNewDataset ==
    /\ pc = "Test"
    /\ LET src == input_fn(FLAGS.batch_size, "rollout", FLAGS.eval_split)
       IN  IF src.raises # "none"
           THEN Raise(src.raises) /\ UNCHANGED dataset
           ELSE /\ dataset' = GraphDataset("rollout", FLAGS.eval_split)
                /\ pc' = "Test_dataset"
                /\ UNCHANGED err
    /\ UNCHANGED <<flagVars, called, testDataset, features, step, testVars, trainVars>>

\* Train(): dataset = GraphDataset(size=FLAGS.num_steps)
TrainNewDataset ==
    /\ pc = "Train"
    /\ LET src == input_fn(FLAGS.batch_size, "one_step_train", "train")
       IN  IF src.raises # "none"
           THEN Raise(src.raises) /\ UNCHANGED dataset
           ELSE /\ dataset' = GraphDataset("one_step_train", "train")
                /\ pc' = "Train_dataset"
                /\ UNCHANGED err
    /\ UNCHANGED <<flagVars, called, testDataset, features, step, testVars, trainVars>>

\* self.size = len(list(self.dataset)) of `dataset`, one element at a time.
DatasetList ==
    /\ pc \in {"Test_dataset", "Train_dataset"}
    /\ ListEnabled(dataset)
    /\ dataset' = ListStep(dataset)
    /\ pc' = IF dataset'.size = -1 THEN pc
             ELSE IF pc = "Test_dataset" THEN "Test_loop" ELSE "Train_293"
    /\ UNCHANGED <<flagVars, err, called, testDataset, features, step, testVars, trainVars>>

\* Train(): testDataset = GraphDataset(size=FLAGS.num_steps, split='test')
TrainNewTestDataset ==
    /\ pc = "Train_293"
    /\ LET src == input_fn(FLAGS.batch_size, "one_step_train", "test")
       IN  IF src.raises # "none"
           THEN Raise(src.raises) /\ UNCHANGED testDataset
           ELSE /\ testDataset' = GraphDataset("one_step_train", "test")
                /\ pc' = "Train_testDataset"
                /\ UNCHANGED err
    /\ UNCHANGED <<flagVars, called, dataset, features, step, testVars, trainVars>>

\* self.size = len(list(self.dataset)) of `testDataset`.
TestDatasetList ==
    /\ pc = "Train_testDataset"
    /\ ListEnabled(testDataset)
    /\ testDataset' = ListStep(testDataset)
    /\ pc' = IF testDataset'.size = -1 THEN pc ELSE "Train_loop"
    /\ UNCHANGED <<flagVars, err, called, dataset, features, step, testVars, trainVars>>

\* ------------------------------------------------------------ Test
\* tf.transpose(x, [1, 0, 2])
transpose(x) ==
    [p \in 1..Len(x[1]) |-> [t \in 1..Len(x) |-> x[t][p]]]

\* The parsed record of trajectory k: 'position' is [T, N, D].
ParsedPosition(k) ==
    [t \in 1..NumFrames |->
        [p \in 1..NumParticles |-> [d \in 1..Dim |-> GroundPosition(k, p, t, d)]]]

\* prepare_rollout_inputs, then GraphDataset.__next__: the features of
\* trajectory k, with 'step_context' only when the record holds one.
prepare_rollout_inputs(k) ==
    IF data.has_context
    THEN [position |-> transpose(ParsedPosition(k)),
          particle_type |-> data.particle_type,
          step_context |-> [t \in 1..NumFrames |-> GroundContext(t)]]
    ELSE [position |-> transpose(ParsedPosition(k)),
          particle_type |-> data.particle_type]

\* for features, targets in tqdm(dataset): the next trajectory.
TestNextTrajectory ==
    /\ pc = "Test_loop"
    /\ dataset.pos < dataset.size
    /\ features' = prepare_rollout_inputs(dataset.pos)
    /\ dataset' = [dataset EXCEPT !.pos = dataset.pos + 1]
    /\ pc' = IF loaded = FALSE THEN "Test_load" ELSE "Test_622"
    /\ UNCHANGED <<flagVars, err, called, testDataset, step, testVars, trainVars>>

\* StopIteration ends the loop and Test() returns.
TestLoopExit ==
    /\ pc = "Test_loop"
    /\ ~(dataset.pos < dataset.size)
    /\ pc' = "done"
    /\ UNCHANGED <<flagVars, err, called, dataset, testDataset, features, step,
                   testVars, trainVars>>

\* if loaded is False: one inference on the CPU, then the checkpoint is loaded.
TestLoadModel ==
    /\ pc = "Test_load"
    /\ IF "step_context" \notin DOMAIN features
       THEN Raise("KeyError") /\ UNCHANGED <<loaded, model>>
       ELSE /\ \E state_dict \in Checkpoints : model' = state_dict
            /\ loaded' = TRUE
            /\ pc' = "Test_622"
            /\ UNCHANGED err
    /\ UNCHANGED <<flagVars, called, dataset, testDataset, features, step,
                   example_index, current_positions, updated_predictions,
                   inference_log, rollout_op, trainVars>>

initial_positions ==
    [p \in 1..Len(features.position) |->
        Take(features.position[p], INPUT_SEQUENCE_LENGTH)]

ground_truth_positions ==
    [p \in 1..Len(features.position) |->
        Drop(features.position[p], INPUT_SEQUENCE_LENGTH)]

global_context == features.step_context

num_steps == Len(ground_truth_positions[1])

\* initial_positions ... current_positions = initial_positions; updated_predictions = []
TestInitRollout ==
    /\ pc = "Test_622"
    /\ IF "step_context" \notin DOMAIN features
       THEN /\ Raise("KeyError")
            /\ UNCHANGED <<step, current_positions, updated_predictions, inference_log>>
       ELSE /\ current_positions' = initial_positions
            /\ updated_predictions' = << >>
            /\ inference_log' = << >>
            /\ step' = 0
            /\ pc' = "Test_rollout"
            /\ UNCHANGED err
    /\ UNCHANGED <<flagVars, called, dataset, testDataset, features, loaded,
                   example_index, rollout_op, model, trainVars>>

\* model.inference: [N, PREDICT_LENGTH, D], the newest input frame moved by the
\* weights.
model_inference(position_sequence, delta) ==
    [p \in 1..Len(position_sequence) |->
        [i \in 1..PREDICT_LENGTH |->
            [d \in 1..Dim |->
                position_sequence[p][Len(position_sequence[p])][d] + delta + i - 1]]]

\* The zero padding of the context read so far; its length is negative when the
\* context is shorter than the window.
zero_pad_length(s) ==
    Len(global_context) - Len(Take(global_context, s + INPUT_SEQUENCE_LENGTH)) - 1

global_context_step(s) ==
    Take(global_context, s + INPUT_SEQUENCE_LENGTH)
        \o [i \in 1..zero_pad_length(s) |-> 0]

\* kinematic_mask repeated along the coordinates: [N, D]
kinematic_mask(particle_types, d) ==
    reshape(repeat_interleave(get_kinematic_mask(particle_types), d), d)

\* torch.where with its two value arguments exchanged.
next_position_swapped(particle_types, positions_ground_truth, predict_positions) ==
    torch_where(kinematic_mask(particle_types, Len(predict_positions[1])),
                predict_positions, positions_ground_truth)

\* next_position = torch.where(kinematic_mask, positions_ground_truth, predict_positions)
next_position(particle_types, positions_ground_truth, predict_positions) ==
    torch_where(kinematic_mask(particle_types, Len(predict_positions[1])),
                positions_ground_truth, predict_positions)

\* torch.cat([current_positions[:, 1:], frame.unsqueeze(1)], axis=1)
cat_window(window, frame) ==
    [p \in 1..Len(window) |-> Drop(window[p], 1) \o <<frame[p]>>]

\* The window always fed with the ground truth, whatever the flag.
appended_frame_always_truth(rollout_refine, next_pos, positions_ground_truth) ==
    positions_ground_truth

\* The window always fed with the prediction, whatever the flag.
appended_frame_always_prediction(rollout_refine, next_pos, positions_ground_truth) ==
    next_pos

\* The frame appended to the window after a step.
appended_frame(rollout_refine, next_pos, positions_ground_truth) ==
    IF rollout_refine = FALSE THEN next_pos ELSE positions_ground_truth

\* One pass of `for step in range(num_steps)`.
RolloutStep ==
    /\ pc = "Test_rollout"
    /\ step < num_steps
    /\ IF zero_pad_length(step) < 0
         THEN /\ Raise("RuntimeError")
              /\ UNCHANGED <<step, current_positions, updated_predictions, inference_log>>
         ELSE LET out == model_inference(current_positions, model)
                  positions_ground_truth ==
                      [p \in 1..Len(ground_truth_positions) |->
                          ground_truth_positions[p][step + 1]]
                  predict_positions == [p \in 1..Len(out) |-> out[p][1]]
                  next_pos == next_position(features.particle_type,
                                            positions_ground_truth, predict_positions)
              IN  /\ inference_log' = Append(inference_log,
                         [position_sequence |-> current_positions,
                          global_context |-> global_context_step(step),
                          output |-> out])
                  /\ updated_predictions' = Append(updated_predictions, next_pos)
                  /\ current_positions' =
                         cat_window(current_positions,
                                    appended_frame(FLAGS.rollout_refine, next_pos,
                                                   positions_ground_truth))
                  /\ step' = step + 1
                  /\ UNCHANGED <<pc, err>>
    /\ UNCHANGED <<flagVars, called, dataset, testDataset, features, loaded,
                   example_index, rollout_op, model, trainVars>>

\* After the last step: the rollout is dumped to rollout_<split>_<index>.json.
TestWriteRollout ==
    /\ pc = "Test_rollout"
    /\ ~(step < num_steps)
    /\ rollout_op' = [initial_positions |-> initial_positions,
                      predicted_rollout |-> updated_predictions,
                      ground_truth_rollout |-> ground_truth_positions,
                      particle_types |-> features.particle_type,
                      global_context |-> global_context,
                      filename |-> <<"rollout", FLAGS.eval_split, example_index>>]
    /\ example_index' = example_index + 1
    /\ pc' = "Test_loop"
    /\ UNCHANGED <<flagVars, err, called, dataset, testDataset, features, loaded,
                   step, current_positions, updated_predictions, inference_log,
                   model, trainVars>>

\* ------------------------------------------------------------ rationals
NaN == <<0, 0>>

IsNaN(a) == a[2] = 0

RatAdd(a, b) ==
    IF IsNaN(a) \/ IsNaN(b) THEN NaN ELSE <<a[1] * b[2] + b[1] * a[2], a[2] * b[2]>>

RatMul(a, b) ==
    IF IsNaN(a) \/ IsNaN(b) THEN NaN ELSE <<a[1] * b[1], a[2] * b[2]>>

\* a / n for a count n: 0 / 0 is NaN (a masked sum over no particle is 0).
RatDiv(a, n) ==
    IF IsNaN(a) \/ n = 0 THEN NaN ELSE <<a[1], a[2] * n>>

RatEq(a, b) ==
    IF IsNaN(a) \/ IsNaN(b) THEN IsNaN(a) /\ IsNaN(b) ELSE a[1] * b[2] = b[1] * a[2]

RECURSIVE RatSum(_)
RatSum(seq) ==
    IF seq = << >> THEN <<0, 1>> ELSE RatAdd(seq[1], RatSum(Tail(seq)))

RECURSIVE Pow(_, _)
Pow(a, i) == IF i = 0 THEN <<1, 1>> ELSE RatMul(a, Pow(a, i - 1))

Abs(x) == IF x < 0 THEN -x ELSE x

\* ------------------------------------------------------------ Train
\* The accelerations the model returns for a batch: predictions and targets.
PredAccelerations == {<<0, 0, 0>>, <<0, 0, 2>>}
TargetAccelerations == {<<0, 0, 0>>, <<1, 0, 0>>}

\* A local variable is assigned.
Assign(locals, name, value) ==
    [x \in DOMAIN locals \cup {name} |-> IF x = name THEN value ELSE locals[x]]

Assigned(locals, name) == name \in DOMAIN locals

\* Lines 324-341: non_kinematic_mask, anchor_plane_mask and noise_mask ([N, 1, 1]
\* or [N, 1, 3], here without the axis of length 1).
noise_masks(locals, loss_flag, particle_types) ==
    IF startswith(loss_flag, "anchor")
    THEN LET metal == get_metal_mask(particle_types)
             plane == get_anchor_z_mask(particle_types)
             one(b) == IF b THEN 1 ELSE 0
             noise_anchor_plane_mask ==
                 [p \in 1..Len(plane) |-> <<one(plane[p]), one(plane[p]), 0>>]
             repeated ==
                 [p \in 1..Len(metal) |-> repeat_interleave(<<one(metal[p])>>, 3)]
         IN  Assign(Assign(Assign(locals,
                 "non_kinematic_mask", metal),
                 "anchor_plane_mask", plane),
                 "noise_mask",
                 [p \in 1..Len(metal) |->
                     [d \in 1..3 |-> repeated[p][d] + noise_anchor_plane_mask[p][d]]])
    ELSE LET non_kinematic ==
                 [p \in 1..Len(particle_types) |->
                     ~get_kinematic_mask(particle_types)[p]]
         IN  Assign(Assign(locals,
                 "non_kinematic_mask", non_kinematic),
                 "noise_mask",
                 [p \in 1..Len(particle_types) |->
                     <<IF non_kinematic[p] THEN 1 ELSE 0>>])

\* GraphDataset.__next__ of a one-step dataset: the batch, with 'step_context'
\* only when the records hold one.
next_batch(particle_types, has_context) ==
    IF has_context
    THEN [particle_type |-> particle_types, step_context |-> <<GroundContext(1)>>]
    ELSE [particle_type |-> particle_types]

\* for features, targets in tqdm(dataset): lines 318-355, up to the forward pass.
TrainNextBatch ==
    /\ pc = "Train_loop"
    /\ dataset.pos < dataset.size
    /\ dataset' = [dataset EXCEPT !.pos = dataset.pos + 1]
    /\ features' = next_batch(data.particle_type, data.has_context)
    /\ IF "step_context" \notin DOMAIN features'
       THEN /\ Raise("AttributeError")
            /\ train' = noise_masks(train, FLAGS.loss, features'.particle_type)
       ELSE /\ \E pred \in [1..NumParticles -> PredAccelerations],
                  target \in [1..NumParticles -> TargetAccelerations] :
                  train' = Assign(noise_masks(train, FLAGS.loss, features'.particle_type),
                                  "pred_target", <<pred, target>>)
            /\ pc' = "Train_357"
            /\ UNCHANGED err
    /\ UNCHANGED <<flagVars, called, testDataset, step, testVars, calls>>

\* if optimizer is None: lines 357-379, the first batch.
TrainInitOptimizer ==
    /\ pc = "Train_357"
    /\ train.optimizer = "None"
    /\ \E apex \in {a \in BOOLEAN : FLAGS.fp16 \/ a} :
         /\ calls' = [calls EXCEPT !.Adam = calls.Adam + 1]
         /\ IF FLAGS.fp16 /\ ~apex
            THEN /\ pc' = "exit"
                 /\ train' = Assign(Assign(train, "device", FLAGS.device),
                                    "optimizer", "Adam")
            ELSE /\ pc' = "Train_loop"
                 /\ train' = Assign(Assign(Assign(Assign(train,
                                "device", FLAGS.device),
                                "optimizer", "Adam"),
                                "scheduler", "ExponentialLR"),
                                "decay_steps", 5000000)
    /\ UNCHANGED <<flagVars, err, called, dataset, testDataset, features, step,
                   testVars>>

\* decay_fators_3: LOSS_DECAY_FACTOR ** i for i in range(PREDICT_LENGTH), each
\* repeated 3 times.
decay_fators_3 ==
    repeat_interleave([i \in 1..PREDICT_LENGTH |-> Pow(LOSS_DECAY_FACTOR, i - 1)], 3)

\* Lines 383-389: the squared error, decayed and summed over the last axis.
squared_error(pred, target) ==
    [p \in 1..Len(pred) |->
        RatSum([d \in 1..Len(pred[p]) |->
            RatMul(<<(pred[p][d] - target[p][d]) * (pred[p][d] - target[p][d]), 1>>,
                   decay_fators_3[d])])]

Count(mask) == Cardinality({p \in 1..Len(mask) : mask[p]})

\* torch.where(mask, loss, 0), torch.sum(loss) / torch.sum(mask)
masked_mean(mask, loss) ==
    RatDiv(RatSum([p \in 1..Len(loss) |-> IF mask[p] THEN loss[p] ELSE <<0, 1>>]),
           Count(mask))

\* torch.nn.functional.l1_loss(a * scale, b * scale): the mean over all elements.
l1_loss(a, b, scale) ==
    RatDiv(RatSum([p \in 1..Len(a) |->
               RatSum([d \in 1..Len(a[p]) |->
                   RatMul(<<Abs(a[p][d] - b[p][d]), 1>>, scale[d])])]),
           Len(a) * Dim)

\* pred_acceleration[..., 2] ** 2, masked by anchor_plane_mask and averaged.
plane_loss(pred, anchor_plane_mask) ==
    masked_mean(anchor_plane_mask,
                [p \in 1..Len(pred) |-> <<pred[p][3] * pred[p][3], 1>>])

Dot(x, y) == x[1] * y[1] + x[2] * y[2] + x[3] * y[3]

Norm(x) == CHOOSE n \in 0..Dot(x, x) : n * n = Dot(x, x)

\* torch.nn.functional.cosine_similarity on vectors along one axis: their norms
\* are integers and the quotient is -1, 0 or 1; a zero vector gives 0.
cosine_similarity(x, y) ==
    IF Dot(x, x) = 0 \/ Dot(y, y) = 0 THEN 0
    ELSE Dot(x, y) \div (Norm(x) * Norm(y))

k == 100

\* random.choices(pid_list, k=k), as the number of times each particle is drawn:
\* one particle every time, or two particles half of the times each.
random_choices(n) ==
    {[p \in 1..n |-> IF p = a THEN k ELSE 0] : a \in 1..n}
        \cup {[p \in 1..n |-> IF p \in ab THEN k \div 2 ELSE 0] :
                  ab \in {s \in SUBSET (1..n) : Cardinality(s) = 2}}

\* Lines 451-462: the double loop over idx_i <= idx_j, its terms grouped by the
\* two particles they compare ((corr_gt - corr_pred) ** 2 is symmetric in them).
loss_corr(pred, target, random_pids) ==
    LET term(i, j) ==
            (cosine_similarity(target[i], target[j])
                 - cosine_similarity(pred[i], pred[j]))
            * (cosine_similarity(target[i], target[j])
                 - cosine_similarity(pred[i], pred[j]))
        pairs(i, j) ==
            IF i = j THEN (random_pids[i] * (random_pids[i] + 1)) \div 2
            ELSE random_pids[i] * random_pids[j]
        n == Len(pred)
    IN  <<RatSum([x \in 1..(n * n) |->
                LET i == ((x - 1) \div n) + 1
                    j == ((x - 1) % n) + 1
                IN  IF i <= j THEN <<pairs(i, j) * term(i, j), 1>> ELSE <<0, 1>>])[1],
          k * k>>

\* utils.weighted_square_error(pred, target, device): a function of its two
\* arguments alone.
weighted_square_error(pred, target) == <<"weighted_square_error", pred, target>>

NoWeighted == << >>

\* Lines 381-490. The loss is [weighted, value]: the result of
\* weighted_square_error, when it is part of the loss, plus a rational; or the
\* exception raised.
compute_loss(loss_flag, locals, particle_types, pred, target, random_pids) ==
    LET loss == squared_error(pred, target)
        not_kinematic ==
            [p \in 1..Len(particle_types) |-> ~get_kinematic_mask(particle_types)[p]]
    IN  IF startswith(loss_flag, "anchor")
        THEN LET l2 == masked_mean(not_kinematic, loss)
                 with_plane ==
                     RatAdd(l2, RatMul(<<l_plane, 1>>,
                                       plane_loss(pred, locals.anchor_plane_mask)))
             IN  IF ~Assigned(locals, "anchor_plane_mask")
                 THEN [raises |-> "UnboundLocalError"]
                 ELSE IF loss_flag = "anchor_me"
                 THEN [raises |-> "none", weighted |-> NoWeighted,
                       value |-> RatAdd(with_plane,
                                        RatMul(<<l_me, 1>>,
                                               l1_loss(pred, target, decay_fators_3)))]
                 ELSE [raises |-> "none", weighted |-> NoWeighted, value |-> with_plane]
        ELSE IF startswith(loss_flag, "weighted")
        THEN IF loss_flag = "weighted_anchor"
             THEN IF ~Assigned(locals, "anchor_plane_mask")
                  THEN [raises |-> "UnboundLocalError"]
                  ELSE [raises |-> "none",
                        weighted |-> weighted_square_error(pred, target),
                        value |-> RatMul(<<l_plane, 1>>,
                                         plane_loss(pred, locals.anchor_plane_mask))]
             ELSE [raises |-> "none", weighted |-> weighted_square_error(pred, target),
                   value |-> <<0, 1>>]
        ELSE IF loss_flag = "correlation"
        THEN IF ~Assigned(locals, "non_kinematic_mask")
             THEN [raises |-> "UnboundLocalError"]
             ELSE [raises |-> "none", weighted |-> NoWeighted,
                   value |-> RatAdd(masked_mean(locals.non_kinematic_mask, loss),
                                    RatMul(<<1, 1>>,
                                           loss_corr(pred, target, random_pids)))]
        ELSE IF loss_flag = "me"
        THEN IF ~Assigned(locals, "non_kinematic_mask")
             THEN [raises |-> "UnboundLocalError"]
             ELSE LET loss_l1 ==
                          RatSum([d \in 1..Len(decay_fators_3) |->
                              RatMul(l1_loss(pred, target, [x \in 1..Dim |-> <<1, 1>>]),
                                     decay_fators_3[d])])
                  IN  [raises |-> "none", weighted |-> NoWeighted,
                       value |-> RatAdd(masked_mean(locals.non_kinematic_mask, loss),
                                        RatMul(<<l_me, 1>>, loss_l1))]
        ELSE IF ~Assigned(locals, "non_kinematic_mask")
             THEN [raises |-> "UnboundLocalError"]
             ELSE [raises |-> "none", weighted |-> NoWeighted,
                   value |-> masked_mean(locals.non_kinematic_mask, loss)]

\* Lines 381-490 of a batch after the first: the loss of the --loss flag.
TrainLoss ==
    /\ pc = "Train_357"
    /\ train.optimizer # "None"
    /\ \E random_pids \in
            IF FLAGS.loss = "correlation" THEN random_choices(NumParticles)
            ELSE {<< >>} :
         LET l == compute_loss(FLAGS.loss, train, features.particle_type,
                               train.pred_target[1], train.pred_target[2], random_pids)
         IN  IF l.raises # "none"
             THEN Raise(l.raises) /\ UNCHANGED train
             ELSE /\ train' = Assign(Assign(Assign(train,
                                "random_pids", random_pids),
                                "non_kinematic_mask",
                                IF startswith(FLAGS.loss, "anchor")
                                THEN [p \in 1..NumParticles |->
                                         ~get_kinematic_mask(features.particle_type)[p]]
                                ELSE train.non_kinematic_mask),
                                "loss", [weighted |-> l.weighted, value |-> l.value])
                  /\ pc' = "Train_492"
                  /\ UNCHANGED err
    /\ UNCHANGED <<flagVars, called, dataset, testDataset, features, step, testVars,
                   calls>>

\* Lines 492-564: backward pass, optimizer step, step += 1, and every 50 steps
\* the evaluation on eval_steps batches of testDataset.
TrainBackward ==
    /\ pc = "Train_492"
    /\ calls' = [calls EXCEPT !.backward = calls.backward + 1,
                              !.optimizer_step = calls.optimizer_step + 1]
    /\ model' = model + 1
    /\ step' = step + 1
    /\ IF step' % 50 = 0
       THEN IF testDataset.pos + eval_steps <= testDataset.size
            THEN /\ testDataset' = [testDataset EXCEPT !.pos = testDataset.pos + eval_steps]
                 /\ pc' = "Train_loop"
                 /\ UNCHANGED err
            ELSE /\ testDataset' = [testDataset EXCEPT !.pos = testDataset.size]
                 /\ Raise("StopIteration")
       ELSE /\ pc' = "Train_loop"
            /\ UNCHANGED <<err, testDataset>>
    /\ UNCHANGED <<flagVars, called, dataset, features, loaded, example_index,
                   current_positions, updated_predictions, inference_log, rollout_op,
                   train>>

\* StopIteration from `dataset`: writer.close() and Train() returns.
TrainLoopExit ==
    /\ pc = "Train_loop"
    /\ ~(dataset.pos < dataset.size)
    /\ pc' = "done"
    /\ UNCHANGED <<flagVars, err, called, dataset, testDataset, features, step,
                   testVars, trainVars>>

\* The training loop of Train() on its own: the state at line 318 once the two
\* GraphDataset objects exist, `dataset` holding `size` batches.
InitTrainLoop ==
    /\ \E loss \in LossValues, fp16 \in BOOLEAN :
          FLAGS = [mode |-> "train", loss |-> loss, batch_size |-> MaxBatchSize,
                   num_steps |-> MaxNumSteps, rollout_refine |-> FALSE,
                   fp16 |-> fp16, eval_split |-> "test", device |-> "cuda:0"]
    /\ \E particle_type \in ParticleTypeVectors :
          data = [particle_type |-> particle_type, has_context |-> TRUE,
                  num_steps |-> MaxRolloutSteps,
                  records |-> [train |-> 1, valid |-> 0, test |-> 1]]
    /\ \E size \in 0..MaxBatches :
          /\ dataset = [mode |-> "one_step_train", split |-> "train", size |-> size,
                        pos |-> 0, listed |-> size]
          /\ testDataset = [mode |-> "one_step_train", split |-> "test",
                            size |-> size, pos |-> 0, listed |-> size]
    /\ pc = "Train_loop"
    /\ err = "none"
    /\ called = "Train"
    /\ features = << >>
    /\ loaded = FALSE
    /\ example_index = 0
    /\ step = 0
    /\ current_positions = << >>
    /\ updated_predictions = << >>
    /\ inference_log = << >>
    /\ rollout_op = << >>
    /\ model = 0
    /\ train = TrainLocals
    /\ calls = NoCalls

NextTrainLoop ==
    \/ TrainNextBatch
    \/ TrainInitOptimizer
    \/ TrainLoss
    \/ TrainBackward
    \/ TrainLoopExit

SpecTrainLoop == InitTrainLoop /\ [][NextTrainLoop]_vars

\* ------------------------------------------------------------ the program
Next ==
    \/ Main
    \/ TestNewDataset
    \/ TrainNewDataset
    \/ DatasetList
    \/ TrainNewTestDataset
    \/ TestDatasetList
    \/ TestNextTrajectory
    \/ TestLoopExit
    \/ TestLoadModel
    \/ TestInitRollout
    \/ RolloutStep
    \/ TestWriteRollout
    \/ TrainLoopExit

Spec == Init /\ [][Next]_vars

\* ------------------------------------------------------------ properties
\* The windows of the running rollout: those passed to model.inference so far,
\* then the one the next step will pass.
Windows ==
    [s \in 1..(Len(inference_log) + 1) |->
        IF s <= Len(inference_log) THEN inference_log[s].position_sequence
        ELSE current_positions]

Particles == 1..Len(features.particle_type)

NonKinematic == {p \in Particles : features.particle_type[p] # KINEMATIC_PARTICLE_ID}

\* C1: with rollout_refine False the rollout is autoregressive. The window of
\* step s >= 1 is the window of step s-1 without its oldest frame and with the
\* next_position of step s-1 as newest frame; it always holds
\* INPUT_SEQUENCE_LENGTH frames; from step INPUT_SEQUENCE_LENGTH on every frame
\* is the next_position of an earlier step, which for a non-kinematic particle
\* is the model's output of that step.
C1_AutoregressiveWindow ==
    (pc = "Test_rollout" /\ FLAGS.rollout_refine = FALSE) =>
        \A s \in 1..Len(Windows) : \A p \in Particles :
            /\ Len(Windows[s][p]) = INPUT_SEQUENCE_LENGTH
            /\ s >= 2 =>
                 /\ \A f \in 1..(INPUT_SEQUENCE_LENGTH - 1) :
                        Windows[s][p][f] = Windows[s - 1][p][f + 1]
                 /\ Windows[s][p][INPUT_SEQUENCE_LENGTH] = updated_predictions[s - 1][p]
            /\ s >= INPUT_SEQUENCE_LENGTH + 1 =>
                 \A f \in 1..INPUT_SEQUENCE_LENGTH :
                    LET earlier == s - INPUT_SEQUENCE_LENGTH - 1 + f
                    IN  /\ Windows[s][p][f] = updated_predictions[earlier][p]
                        /\ p \in NonKinematic =>
                             Windows[s][p][f] = inference_log[earlier].output[p][1]

\* Step INPUT_SEQUENCE_LENGTH of an autoregressive rollout has received its
\* window, with a particle that is predicted.
C1_Witness ==
    /\ pc = "Test_rollout"
    /\ FLAGS.rollout_refine = FALSE
    /\ Len(inference_log) >= INPUT_SEQUENCE_LENGTH + 1
    /\ NonKinematic # {}

\* The predicted rollout agrees with the ground truth on the kinematic
\* particles and with the model's output on the others.
KinematicFromTruth(predicted, truth, particle_types) ==
    \A s \in 1..Len(predicted) : \A p \in 1..Len(particle_types) : \A d \in 1..Dim :
        predicted[s][p][d] =
            IF particle_types[p] = KINEMATIC_PARTICLE_ID
            THEN truth[p][s][d]
            ELSE inference_log[s].output[p][1][d]

\* C3: at every rollout step, for both values of rollout_refine, the recorded
\* next_position of a kinematic particle is its ground-truth position of that
\* step in every coordinate, and that of any other particle is the model's
\* prediction; the dict written holds the same.
C3_KinematicNotPredicted ==
    /\ pc = "Test_rollout" =>
         KinematicFromTruth(updated_predictions, ground_truth_positions,
                            features.particle_type)
    /\ (pc \in {"Test_loop", "done"} /\ rollout_op # << >>) =>
         KinematicFromTruth(rollout_op.predicted_rollout,
                            rollout_op.ground_truth_rollout, rollout_op.particle_types)

\* Two steps were taken on a trajectory with a kinematic and another particle.
C3_Witness ==
    /\ pc = "Test_rollout"
    /\ Len(updated_predictions) >= 2
    /\ NonKinematic # {}
    /\ NonKinematic # Particles

\* C4: when the records carry no 'step_context', input preparation, training
\* and rollout raise no error for the missing context.
C4_ContextOptional ==
    ~data.has_context => err \notin {"KeyError", "AttributeError"}

\* C6: main() runs the procedure the --mode flag names: training for 'train',
\* one-step evaluation (a one_step dataset) for 'eval', rollout evaluation for
\* 'eval_rollout'.
C6_ModeSelectsProcedure ==
    /\ (FLAGS.mode = "train" /\ called # "none") => called = "Train"
    /\ (FLAGS.mode = "eval_rollout" /\ dataset.mode # "none") =>
           (called = "Test" /\ dataset.mode = "rollout")
    /\ (FLAGS.mode = "eval" /\ dataset.mode # "none") =>
           (called = "Test" /\ startswith(dataset.mode, "one_step"))

\* C7: on a training file that is not empty, the GraphDataset built with
\* size=FLAGS.num_steps holds that many batches (list() takes no more from the
\* pipeline), and Train() ends after that many training steps.
C7_NumStepsTrainingSteps ==
    (called = "Train" /\ data.records.train > 0) =>
        /\ dataset.listed <= FLAGS.num_steps
        /\ dataset.size # -1 => dataset.size = FLAGS.num_steps
        /\ pc = "done" => step = FLAGS.num_steps

InputModes == {"one_step_train", "one_step", "one_step_valid", "rollout",
               "train", "eval", "eval_rollout"}

\* C8: in mode 'rollout' input_fn returns a dataset exactly when batch_size is
\* 1 and fails its assertion otherwise; a mode that neither starts with
\* 'one_step' nor is 'rollout' raises ValueError; Test() gets a dataset, and
\* writes rollouts, only when FLAGS.batch_size is 1.
C8_RolloutNeedsBatchSizeOne ==
    /\ \A b \in 1..MaxBatchSize, m \in InputModes :
          LET r == input_fn(b, m, FLAGS.eval_split)
          IN  /\ m = "rollout" =>
                   r.raises = IF b = 1 THEN "none" ELSE "AssertionError"
              /\ (~startswith(m, "one_step") /\ m # "rollout") =>
                   r.raises = "ValueError"
    /\ (called = "Test" /\ (dataset.mode # "none" \/ example_index > 0)) =>
          FLAGS.batch_size = 1
    /\ (called = "Test" /\ FLAGS.batch_size # 1 /\ pc # "Test") =>
          (pc = "raised" /\ err = "AssertionError")

\* Test() was called with a batch size of 2 and failed the assertion.
C8_Witness ==
    /\ called = "Test"
    /\ FLAGS.batch_size = 2
    /\ pc = "raised"
    /\ err = "AssertionError"

\* C9: with rollout_refine True the frame appended after step s-1 is the ground
\* truth of that step, so every window consists of consecutive ground-truth
\* frames of the trajectory, while the recorded rollout holds, for the
\* particles that are predicted, the model's output on that window.
C9_RefineFeedsGroundTruth ==
    (pc = "Test_rollout" /\ FLAGS.rollout_refine = TRUE) =>
        /\ \A s \in 1..Len(Windows) : \A p \in Particles :
              /\ Len(Windows[s][p]) = INPUT_SEQUENCE_LENGTH
              /\ \A f \in 1..INPUT_SEQUENCE_LENGTH :
                    Windows[s][p][f] = features.position[p][s + f - 1]
              /\ s >= 2 =>
                    Windows[s][p][INPUT_SEQUENCE_LENGTH]
                        = ground_truth_positions[p][s - 1]
        /\ \A s \in 1..Len(updated_predictions) : \A p \in NonKinematic :
              updated_predictions[s][p] = inference_log[s].output[p][1]

\* Two steps of a refined rollout were taken, with a particle that is predicted.
C9_Witness ==
    /\ pc = "Test_rollout"
    /\ FLAGS.rollout_refine = TRUE
    /\ Len(inference_log) >= 2
    /\ NonKinematic # {}

\* The loss of the batch with other accelerations.
LossOf(pred, target) ==
    compute_loss(FLAGS.loss, train, features.particle_type, pred, target,
                 train.random_pids)

====
